---- MODULE Spec2Model ----
(***************************************************************************)
(* Model of the Dog Birthday Guestbook API (src/main.py): two SQLite       *)
(* tables, guestbook and rsvp, behind six request handlers.  A string is   *)
(* a sequence of one-character strings; a table is the set of its rows.    *)
(* Every handler is one atomic step: requests are taken one at a time.     *)
(***************************************************************************)
EXTENDS Integers, Sequences, FiniteSets, TLC

VARIABLES
  guestbook,  \* the rows of table guestbook
  gb_seq,     \* sqlite_sequence of guestbook: the largest id it ever assigned
  rsvp,       \* the rows of table rsvp
  rsvp_seq,   \* sqlite_sequence of rsvp
  openConns,  \* connections opened and not yet closed
  req,        \* the last request
  sqlLimit,   \* the value the last request bound to LIMIT ?, 0 if none
  resp,       \* the response to the last request
  maxReturned \* history: the largest id a create_guestbook has returned

vars ==
  <<guestbook, gb_seq, rsvp, rsvp_seq, openConns, req, sqlLimit, resp,
    maxReturned>>

\* ---------------------------------------------------------------- bounds

\* The largest guestbook id the model lets the store assign.
MaxId == 2
\* The largest rsvp id the model lets the store assign.
MaxRsvp == 1

\* ------------------------------------------------------------- constants

NameMin == 1
NameMax == 60
MessageMin == 1
MessageMax == 800
ContactMin == 3
ContactMax == 80
AttendMin == 2
AttendMax == 10
PeopleMin == 1
PeopleMax == 20
MemoMax == 300
GuestbookLimitDefault == 100
GuestbookLimitMax == 500
RsvpLimitDefault == 300
RsvpLimitMax == 1000

\* ADMIN_PASS, at its default "0718".
ADMIN_PASS == <<"0", "7", "1", "8">>

\* ------------------------------------------------------------- strings

\* Python's None, a value no string equals.
None == <<"None">>

\* The characters str.strip() and str.split() take for whitespace.
Whitespace == {" ", "\t", "\n"}

Rep(c, n) == [i \in 1..n |-> c]

SetMax(S) == CHOOSE x \in S : \A y \in S : y <= x
SetMin(S) == CHOOSE x \in S : \A y \in S : x <= y

\* s.strip(): s without its leading and trailing whitespace.
Strip(s) ==
  LET keep == {i \in 1..Len(s) : s[i] \notin Whitespace}
  IN  IF keep = {} THEN <<>> ELSE SubSeq(s, SetMin(keep), SetMax(keep))

\* s.split(): the maximal runs of non-whitespace characters of s, in order.
Split(s) ==
  LET IsWs(i)  == i < 1 \/ i > Len(s) \/ s[i] \in Whitespace
      starts   == {i \in 1..Len(s) : ~IsWs(i) /\ IsWs(i - 1)}
      ends     == {i \in 1..Len(s) : ~IsWs(i) /\ IsWs(i + 1)}
      Nth(S, k) == CHOOSE x \in S : Cardinality({y \in S : y < x}) = k - 1
  IN  [k \in 1..Cardinality(starts) |-> SubSeq(s, Nth(starts, k), Nth(ends, k))]

\* sep.join(words)
RECURSIVE Join(_, _)
Join(sep, words) ==
  IF words = <<>> THEN <<>>
  ELSE IF Len(words) = 1 THEN words[1]
  ELSE words[1] \o sep \o Join(sep, Tail(words))

\* s or "": None and the empty string both give the empty string.
OrEmpty(s) == IF s = None \/ s = <<>> THEN <<>> ELSE s

\* _clean(s) == " ".join((s or "").strip().split())
Clean(s) == Join(<<" ">>, Split(Strip(OrEmpty(s))))

\* ---------------------------------------------------------- admin guard

\* a or b on optional strings: a when a is truthy, else b.
PyOr(a, b) == IF a = None \/ a = <<>> THEN b ELSE a

\* A guard that lets a request with no token through.
AdminGuardMissingPasses(header, query) ==
  LET p == PyOr(header, query)
  IN  (p = None \/ p = <<>>) \/ p = ADMIN_PASS

\* _admin_guard: TRUE when it returns, FALSE when it raises 401.
AdminGuard(header, query) ==
  LET p == PyOr(header, query)
  IN  ~((p = None \/ p = <<>>) \/ p # ADMIN_PASS)

\* ------------------------------------------------------------ validation

LenIn(s, lo, hi) == s # None /\ Len(s) >= lo /\ Len(s) <= hi

\* GuestbookIn accepts the payload.
GuestbookIn(p) ==
  /\ LenIn(p.name, NameMin, NameMax)
  /\ LenIn(p.message, MessageMin, MessageMax)

\* RSVPIn accepts the payload; memo may be None.
RSVPIn(p) ==
  /\ LenIn(p.name, NameMin, NameMax)
  /\ LenIn(p.contact, ContactMin, ContactMax)
  /\ LenIn(p.attend, AttendMin, AttendMax)
  /\ p.people >= PeopleMin /\ p.people <= PeopleMax
  /\ (p.memo = None \/ Len(p.memo) <= MemoMax)

AttendValues == {<<"y", "e", "s">>, <<"m", "a", "y", "b", "e">>, <<"n", "o">>}

\* A check that folds case before comparing.
AttendOkAnyCase(attend) ==
  attend \in AttendValues \cup {<<"Y", "E", "S">>, <<"N", "O">>}

\* attend in ("yes", "maybe", "no")
AttendOk(attend) == attend \in AttendValues

\* --------------------------------------------------------------- storage

Ids(table) == {r.id : r \in table}

\* A plain INTEGER PRIMARY KEY: one more than the largest rowid in the table.
NextRowidNoAutoincrement(table, seq) ==
  IF table = {} THEN 1 ELSE SetMax(Ids(table)) + 1

\* INTEGER PRIMARY KEY AUTOINCREMENT: one more than the largest rowid the
\* table has ever held (sqlite_sequence), never a rowid used before.
NextRowid(table, seq) == SetMax(Ids(table) \cup {seq}) + 1

\* ORDER BY id ASC LIMIT n
RECURSIVE OrderByIdAscLimit(_, _)
OrderByIdAscLimit(table, n) ==
  IF table = {} \/ n = 0 THEN <<>>
  ELSE LET low == CHOOSE r \in table : \A q \in table : q.id >= r.id
       IN  <<low>> \o OrderByIdAscLimit(table \ {low}, n - 1)

\* ORDER BY id DESC LIMIT n: the n rows of the largest ids, largest first
\* (a negative n is no limit).
RECURSIVE OrderByIdDescLimit(_, _)
OrderByIdDescLimit(table, n) ==
  IF table = {} \/ n = 0 THEN <<>>
  ELSE LET top == CHOOSE r \in table : \A q \in table : q.id <= r.id
       IN  <<top>> \o OrderByIdDescLimit(table \ {top}, n - 1)

\* DELETE FROM guestbook, with no WHERE clause.
DeleteAll(table, id) == {}

\* DELETE FROM guestbook WHERE id = ?
DeleteWhereId(table, id) == {r \in table : r.id # id}

\* A comparison off by one: deleting a single row counts as none.
NotFoundOffByOne(rowcount) == rowcount <= 1

\* A comparison that never holds: no delete is reported as not found.
NotFoundNever(rowcount) == rowcount < 0

\* if cur.rowcount <= 0: raise HTTPException(status_code=404)
NotFound(rowcount) == rowcount <= 0

\* A close placed after the statements, not in a finally block.
CloseOnReturnOnly(exit) == exit = "return"

\* try: ... finally: c.close() closes the connection however the block exits.
CloseInFinally(exit) == exit \in {"return", "raise"}

\* The connections left open by a handler that opened `opened` of them and
\* left its try block by `exit`.
ConnsAfter(n, opened, exit) ==
  n + opened - (IF opened > 0 /\ CloseInFinally(exit) THEN opened ELSE 0)

\* The value the handler's limit parameter receives: the query value, or
\* the signature's default when the query has none.
LimitParam(q, default) == IF q.given THEN q.value ELSE default

\* int(limit or default), with no clamp.
EffLimitUnclamped(limit, default, maximum) ==
  IF limit = 0 THEN default ELSE limit

\* max(1, min(int(limit or default), maximum))
EffLimit(limit, default, maximum) ==
  LET l == IF limit = 0 THEN default ELSE limit
      m == IF l < maximum THEN l ELSE maximum
  IN  IF m > 1 THEN m ELSE 1

\* ---------------------------------------------------------------- inputs

\* _now_iso(): the wall clock read at the insert, one of two instants.
Times == {1, 2}

\* Where the storage layer fails, if it does: opening the connection, running
\* the statement, committing, or the last_insert_rowid lookup.
Faults == {"none", "connect", "execute", "commit", "lookup"}

TypicalName == <<" ", "a", " ", " ", "b", " ">>
TypicalMessage == <<"h", "i", "\n", "y", "o">>

\* Payloads GuestbookIn accepts: a typical one, one of whitespace only, one
\* with a name of the greatest length.
GuestbookAccepted ==
  { [name |-> TypicalName, message |-> TypicalMessage],
    [name |-> <<" ", " ">>, message |-> <<"\t", "\n">>],
    [name |-> Rep("x", NameMax), message |-> TypicalMessage] }

\* Payloads GuestbookIn rejects: each one bound crossed by one.
GuestbookRejected ==
  { [name |-> <<>>, message |-> TypicalMessage],
    [name |-> Rep("x", NameMax + 1), message |-> TypicalMessage],
    [name |-> TypicalName, message |-> <<>>],
    [name |-> TypicalName, message |-> Rep("y", MessageMax + 1)] }

GuestbookPayloads == GuestbookAccepted \cup GuestbookRejected

BaseRsvp ==
  [name |-> <<"A", "n", "n">>, contact |-> <<"a", "@", "b">>,
   attend |-> <<"y", "e", "s">>, people |-> PeopleMin, memo |-> None]

\* Payloads create_rsvp stores.
RsvpAccepted ==
  { BaseRsvp,
    [name |-> TypicalName, contact |-> <<" ", "0", "1", " ", " ", "2">>,
     attend |-> <<" ", "n", "o", " ">>, people |-> PeopleMax,
     memo |-> <<" ", "m", " ", " ", "m">>],
    [BaseRsvp EXCEPT !.attend = <<"m", "a", "y", "b", "e", "\t">>,
                     !.memo = <<>>] }

\* attend values outside the closed set, of a length RSVPIn accepts.
AttendRefused ==
  { <<"Y", "E", "S">>, <<"y", "e", " ", "s">>, <<" ", " ">>,
    <<"y", "e", "a", "h">> }

\* Payloads RSVPIn rejects: each one bound crossed by one.
RsvpRejected ==
  {[BaseRsvp EXCEPT !.attend = a] :
      a \in {<<"n">>, <<"y", "e", "s">> \o Rep(" ", AttendMax - 2)}}
  \cup {[BaseRsvp EXCEPT !.people = n] : n \in {PeopleMin - 1, PeopleMax + 1}}
  \cup {[BaseRsvp EXCEPT !.memo = Rep("z", MemoMax + 1)]}
  \cup {[BaseRsvp EXCEPT !.contact = c] :
          c \in {<<"a", "b">>, Rep("c", ContactMax + 1)}}
  \cup {[BaseRsvp EXCEPT !.name = n] : n \in {<<>>, Rep("x", NameMax + 1)}}

RsvpPayloads ==
  RsvpAccepted \cup {[BaseRsvp EXCEPT !.attend = a] : a \in AttendRefused}
  \cup RsvpRejected

\* _clean over the strings the requests carry.
StringInputs ==
  UNION {{p.name, p.message} : p \in GuestbookPayloads}
  \cup UNION {{p.name, p.contact, p.attend, OrEmpty(p.memo)} : p \in RsvpPayloads}

Cleaned == [s \in StringInputs |-> Clean(s)]

\* The x-admin-pass header and the pass query parameter of a request.
WrongPass == <<"0", "7", "1", "9">>
Cred(h, q) == [header |-> h, query |-> q]
CredInputs ==
  { Cred(None, None), Cred(None, ADMIN_PASS), Cred(None, WrongPass),
    Cred(<<>>, ADMIN_PASS), Cred(<<>>, None),
    Cred(ADMIN_PASS, None), Cred(ADMIN_PASS, WrongPass),
    Cred(WrongPass, None), Cred(WrongPass, ADMIN_PASS) }

\* The limit query parameter: absent, or an integer.
Omitted == [given |-> FALSE, value |-> 0]
Given(S) == {[given |-> TRUE, value |-> v] : v \in S}

GuestbookLimitInputs ==
  {Omitted} \cup Given({-1, 0, 1, 2, GuestbookLimitMax + 1})
RsvpLimitInputs ==
  {Omitted} \cup Given({-1, 0, 1, RsvpLimitMax + 1})

\* The inputs of the specification of all handlers together: of each table
\* one payload it stores and every payload it refuses; a missing, a right and
\* a wrong token.
CoreGuestbookPayloads ==
  {[name |-> TypicalName, message |-> TypicalMessage]} \cup GuestbookRejected
CoreRsvpPayloads ==
  {BaseRsvp, [BaseRsvp EXCEPT !.attend = <<"Y", "E", "S">>]} \cup RsvpRejected
CoreCreds ==
  {Cred(None, None), Cred(ADMIN_PASS, None), Cred(WrongPass, ADMIN_PASS)}
CoreLimits == {Omitted} \cup Given({1})

\* Every integer limit near a boundary of the clamp, and one far above.
Around(n) == (n - 3)..(n + 3)
AllGuestbookLimits ==
  {Omitted} \cup Given((-8)..8 \cup Around(GuestbookLimitDefault)
                       \cup Around(GuestbookLimitMax) \cup {99999})
AllRsvpLimits ==
  {Omitted} \cup Given((-8)..8 \cup Around(RsvpLimitDefault)
                       \cup Around(RsvpLimitMax) \cup {99999})

\* --------------------------------------------------------------- handlers

Response(status, id, items) == [status |-> status, id |-> id, items |-> items]

\* The state once the module is loaded: _init_db has created both tables.
Init ==
  /\ guestbook = {}
  /\ gb_seq = 0
  /\ rsvp = {}
  /\ rsvp_seq = 0
  /\ openConns = 0
  /\ req = [op |-> "init_db"]
  /\ sqlLimit = 0
  /\ resp = Response(0, 0, <<>>)
  /\ maxReturned = 0

\* _init_db at a later process start: CREATE TABLE IF NOT EXISTS keeps both
\* tables as they are.
InitDb ==
  \E fault \in Faults \ {"lookup"} :
    /\ req' = [op |-> "init_db"]
    /\ sqlLimit' = 0
    /\ resp' = Response(IF fault = "none" THEN 0 ELSE 500, 0, <<>>)
    /\ openConns' = ConnsAfter(openConns, IF fault = "connect" THEN 0 ELSE 1,
                               IF fault = "none" THEN "return" ELSE "raise")
    /\ UNCHANGED <<guestbook, gb_seq, rsvp, rsvp_seq, maxReturned>>

Health ==
  /\ req' = [op |-> "health"]
  /\ sqlLimit' = 0
  /\ resp' = Response(200, 0, <<>>)
  /\ UNCHANGED <<guestbook, gb_seq, rsvp, rsvp_seq, openConns, maxReturned>>

CreateGuestbook(payloads) ==
  \E payload \in payloads :
    /\ req' = [op |-> "create_guestbook", payload |-> payload]
    /\ sqlLimit' = 0
    /\ UNCHANGED <<rsvp, rsvp_seq>>
    /\ IF ~GuestbookIn(payload)
       THEN /\ resp' = Response(422, 0, <<>>)
            /\ UNCHANGED <<guestbook, gb_seq, openConns>>
       ELSE \E now \in Times, fault \in Faults :
         LET name   == Cleaned[payload.name]
             msg    == Cleaned[payload.message]
             new_id == NextRowid(guestbook, gb_seq)
             row    == [id |-> new_id, created_at |-> now, name |-> name,
                        message |-> msg]
         IN  IF fault \in {"connect", "execute", "commit"}
             THEN /\ resp' = Response(500, 0, <<>>)
                  /\ openConns' = ConnsAfter(openConns,
                                     IF fault = "connect" THEN 0 ELSE 1, "raise")
                  /\ UNCHANGED <<guestbook, gb_seq>>
             ELSE /\ new_id <= MaxId
                  /\ guestbook' = guestbook \cup {row}
                  /\ gb_seq' = new_id
                  /\ resp' = IF fault = "lookup" THEN Response(500, 0, <<>>)
                             ELSE Response(200, new_id, <<>>)
                  /\ openConns' = ConnsAfter(openConns, 1,
                                     IF fault = "lookup" THEN "raise" ELSE "return")
    /\ maxReturned' = IF resp'.id > maxReturned THEN resp'.id ELSE maxReturned

ListGuestbook(limits) ==
  \E q \in limits, fault \in {"none", "connect", "execute"} :
    LET limit == EffLimit(LimitParam(q, GuestbookLimitDefault),
                          GuestbookLimitDefault, GuestbookLimitMax)
    IN  /\ req' = [op |-> "list_guestbook", limit |-> q]
        /\ sqlLimit' = IF fault = "connect" THEN 0 ELSE limit
        /\ resp' = IF fault = "none"
                   THEN Response(200, 0, OrderByIdDescLimit(guestbook, limit))
                   ELSE Response(500, 0, <<>>)
        /\ openConns' = ConnsAfter(openConns, IF fault = "connect" THEN 0 ELSE 1,
                                   IF fault = "none" THEN "return" ELSE "raise")
        /\ UNCHANGED <<guestbook, gb_seq, rsvp, rsvp_seq, maxReturned>>

DeleteGuestbook(creds) ==
  \E item_id \in 0..MaxId, cred \in creds :
    /\ req' = [op |-> "delete_guestbook", item_id |-> item_id, cred |-> cred]
    /\ sqlLimit' = 0
    /\ UNCHANGED <<gb_seq, rsvp, rsvp_seq, maxReturned>>
    /\ IF ~AdminGuard(cred.header, cred.query)
       THEN /\ resp' = Response(401, 0, <<>>)
            /\ UNCHANGED <<guestbook, openConns>>
       ELSE \E fault \in Faults \ {"lookup"} :
         LET after    == DeleteWhereId(guestbook, item_id)
             rowcount == Cardinality(guestbook \ after)
         IN  IF fault # "none"
             THEN /\ resp' = Response(500, 0, <<>>)
                  /\ openConns' = ConnsAfter(openConns,
                                     IF fault = "connect" THEN 0 ELSE 1, "raise")
                  /\ UNCHANGED guestbook
             ELSE /\ guestbook' = after
                  /\ resp' = IF NotFound(rowcount) THEN Response(404, 0, <<>>)
                             ELSE Response(200, 0, <<>>)
                  /\ openConns' = ConnsAfter(openConns, 1,
                                     IF NotFound(rowcount) THEN "raise" ELSE "return")

CreateRsvp(payloads) ==
  \E payload \in payloads :
    /\ req' = [op |-> "create_rsvp", payload |-> payload]
    /\ sqlLimit' = 0
    /\ UNCHANGED <<guestbook, gb_seq, maxReturned>>
    /\ IF ~RSVPIn(payload)
       THEN /\ resp' = Response(422, 0, <<>>)
            /\ UNCHANGED <<rsvp, rsvp_seq, openConns>>
       ELSE IF ~AttendOk(Cleaned[payload.attend])
       THEN /\ resp' = Response(400, 0, <<>>)
            /\ UNCHANGED <<rsvp, rsvp_seq, openConns>>
       ELSE \E now \in Times, fault \in Faults :
         LET name    == Cleaned[payload.name]
             contact == Cleaned[payload.contact]
             attend  == Cleaned[payload.attend]
             memo    == Cleaned[OrEmpty(payload.memo)]
             people  == payload.people
             new_id  == NextRowid(rsvp, rsvp_seq)
             row     == [id |-> new_id, created_at |-> now, name |-> name,
                         contact |-> contact, attend |-> attend,
                         people |-> people, memo |-> memo]
         IN  IF fault \in {"connect", "execute", "commit"}
             THEN /\ resp' = Response(500, 0, <<>>)
                  /\ openConns' = ConnsAfter(openConns,
                                     IF fault = "connect" THEN 0 ELSE 1, "raise")
                  /\ UNCHANGED <<rsvp, rsvp_seq>>
             ELSE /\ new_id <= MaxRsvp
                  /\ rsvp' = rsvp \cup {row}
                  /\ rsvp_seq' = new_id
                  /\ resp' = IF fault = "lookup" THEN Response(500, 0, <<>>)
                             ELSE Response(200, new_id, <<>>)
                  /\ openConns' = ConnsAfter(openConns, 1,
                                     IF fault = "lookup" THEN "raise" ELSE "return")

ListRsvp(limits, creds) ==
  \E q \in limits, cred \in creds :
    /\ req' = [op |-> "list_rsvp", limit |-> q, cred |-> cred]
    /\ UNCHANGED <<guestbook, gb_seq, rsvp, rsvp_seq, maxReturned>>
    /\ IF ~AdminGuard(cred.header, cred.query)
       THEN /\ resp' = Response(401, 0, <<>>)
            /\ sqlLimit' = 0
            /\ UNCHANGED openConns
       ELSE \E fault \in {"none", "connect", "execute"} :
         LET limit == EffLimit(LimitParam(q, RsvpLimitDefault),
                               RsvpLimitDefault, RsvpLimitMax)
         IN  /\ sqlLimit' = IF fault = "connect" THEN 0 ELSE limit
             /\ resp' = IF fault = "none"
                        THEN Response(200, 0, OrderByIdDescLimit(rsvp, limit))
                        ELSE Response(500, 0, <<>>)
             /\ openConns' = ConnsAfter(openConns,
                                IF fault = "connect" THEN 0 ELSE 1,
                                IF fault = "none" THEN "return" ELSE "raise")

\* ---------------------------------------------------------- specifications

\* All handlers together.
Next ==
  \/ InitDb
  \/ Health
  \/ CreateGuestbook(CoreGuestbookPayloads)
  \/ ListGuestbook(CoreLimits)
  \/ DeleteGuestbook(CoreCreds)
  \/ CreateRsvp(CoreRsvpPayloads)
  \/ ListRsvp(CoreLimits, CoreCreds)

Spec == Init /\ [][Next]_vars

\* The guestbook handlers, over every payload and limit.
NextGuestbook ==
  \/ CreateGuestbook(GuestbookPayloads)
  \/ ListGuestbook(GuestbookLimitInputs)
  \/ DeleteGuestbook(CoreCreds)

SpecGuestbook == Init /\ [][NextGuestbook]_vars

\* The rsvp handlers, over every payload, limit and token.
NextRsvp ==
  \/ CreateRsvp(RsvpPayloads)
  \/ ListRsvp(RsvpLimitInputs, CredInputs)

SpecRsvp == Init /\ [][NextRsvp]_vars

\* The two listings, over every limit near a boundary of the clamp.
NextLimits ==
  \/ ListGuestbook(AllGuestbookLimits)
  \/ ListRsvp(AllRsvpLimits, {Cred(ADMIN_PASS, None)})

SpecLimits == Init /\ [][NextLimits]_vars

\* ------------------------------------------------------------ properties

\* The token a request presents: the x-admin-pass header when it is not
\* empty, the pass query parameter otherwise.
Token(cred) ==
  IF cred.header # None /\ cred.header # <<>> THEN cred.header ELSE cred.query

\* The token is present and is the configured secret.
ValidToken(cred) ==
  /\ Token(cred) # None
  /\ Token(cred) # <<>>
  /\ Token(cred) = ADMIN_PASS

Created == req.op = "create_guestbook" /\ resp.status = 200

\* C1: every successful create_guestbook returns an id strictly greater than
\* the id every earlier successful create_guestbook returned, also after the
\* entry of the highest id was deleted.
C1_IdsStrictlyIncrease ==
  [][(req'.op = "create_guestbook" /\ resp'.status = 200)
       => resp'.id > maxReturned]_vars

\* A create returned id 2 after the entry of id 1, then the highest, was
\* deleted.
C1_Witness ==
  /\ Created
  /\ resp.id = 2
  /\ Ids(guestbook) = {2}

DeleteRequest(r) == r.op = "delete_guestbook" /\ ValidToken(r.cred)

\* C2: with a valid token, a delete of an id in the store answers 200 and
\* removes exactly that row (500, and no change, when the storage fails); a
\* delete of an id not in the store, as a second delete of the same id is,
\* answers 404 (or 500), never 200, and leaves the store as it was.
C2_DeleteTwice ==
  [][DeleteRequest(req') =>
       IF req'.item_id \in Ids(guestbook)
       THEN \/ /\ resp'.status = 200
               /\ guestbook' = {r \in guestbook : r.id # req'.item_id}
            \/ /\ resp'.status = 500
               /\ guestbook' = guestbook
       ELSE /\ resp'.status \in {404, 500}
            /\ guestbook' = guestbook]_vars

\* A delete, with a valid token, of an id the store once assigned and no
\* longer holds was answered 404.
C2_Witness ==
  /\ DeleteRequest(req)
  /\ resp.status = 404
  /\ req.item_id \in 1..gb_seq
  /\ req.item_id \notin Ids(guestbook)

\* C3: list_rsvp returns rows only to a token that is present and equal to
\* the secret; a missing or different token gets 401 and no row.
C3_RsvpListGuarded ==
  req.op = "list_rsvp" =>
    /\ resp.items # <<>> => ValidToken(req.cred)
    /\ ~ValidToken(req.cred) => resp.status = 401 /\ resp.items = <<>>

\* The rsvp table holds a row and a list_rsvp whose header is wrong and whose
\* query parameter is right was answered 401.
C3_Witness ==
  /\ rsvp # {}
  /\ req.op = "list_rsvp"
  /\ req.cred = Cred(WrongPass, ADMIN_PASS)
  /\ resp.status = 401

Refused(r) ==
  r.op = "create_rsvp" /\ Clean(r.payload.attend) \notin AttendValues

\* C4: every stored rsvp row has attend "yes", "maybe" or "no"; a create_rsvp
\* whose normalized attend is none of them is refused with 400 (422 when
\* RSVPIn rejects the payload) and inserts nothing.
C4_AttendClosedSet ==
  [][/\ \A r \in rsvp' : r.attend \in AttendValues
     /\ Refused(req') =>
          /\ resp'.status = IF RSVPIn(req'.payload) THEN 400 ELSE 422
          /\ rsvp' = rsvp
          /\ rsvp_seq' = rsvp_seq]_vars

\* A create_rsvp with attend "YES" was answered 400 while the table holds a
\* row.
C4_Witness ==
  /\ req.op = "create_rsvp"
  /\ req.payload.attend = <<"Y", "E", "S">>
  /\ resp.status = 400
  /\ rsvp # {}

\* C5: every stored guestbook entry has a name of 1 to 60 characters and a
\* message of 1 to 800 characters.
C5_StoredTextNonEmpty ==
  \A r \in guestbook :
    /\ Len(r.name) >= NameMin /\ Len(r.name) <= NameMax
    /\ Len(r.message) >= MessageMin /\ Len(r.message) <= MessageMax

\* The limit a listing is to use, as the clamp is described: the default for
\* an omitted limit or 0, the maximum for a greater limit, `low` for a
\* negative one, else the limit as given.
ClampedLimit(q, default, maximum, low) ==
  IF ~q.given \/ q.value = 0 THEN default
  ELSE IF q.value > maximum THEN maximum
  ELSE IF q.value < 0 THEN low
  ELSE q.value

Listed(op) == req.op = op /\ resp.status = 200

\* C6 as stated: the limit a listing uses lies in [1, maximum]; a limit that
\* is 0, omitted or negative falls back to the default.
C6_LimitClampedOrDefault ==
  /\ Listed("list_guestbook") =>
       /\ sqlLimit \in 1..GuestbookLimitMax
       /\ sqlLimit = ClampedLimit(req.limit, GuestbookLimitDefault,
                                  GuestbookLimitMax, GuestbookLimitDefault)
  /\ Listed("list_rsvp") =>
       /\ sqlLimit \in 1..RsvpLimitMax
       /\ sqlLimit = ClampedLimit(req.limit, RsvpLimitDefault, RsvpLimitMax,
                                  RsvpLimitDefault)

\* C6, amended: the limit a listing uses lies in [1, maximum]; a limit in the
\* range is used as given, a greater one is the maximum, 0 or an omitted one
\* is the default, and a negative one is 1.
C6_LimitClamped ==
  /\ Listed("list_guestbook") =>
       /\ sqlLimit \in 1..GuestbookLimitMax
       /\ sqlLimit = ClampedLimit(req.limit, GuestbookLimitDefault,
                                  GuestbookLimitMax, 1)
  /\ Listed("list_rsvp") =>
       /\ sqlLimit \in 1..RsvpLimitMax
       /\ sqlLimit = ClampedLimit(req.limit, RsvpLimitDefault, RsvpLimitMax, 1)

\* list_rsvp was asked for a negative limit and used 1.
C6_Witness ==
  /\ Listed("list_rsvp")
  /\ req.limit.given
  /\ req.limit.value < 0
  /\ sqlLimit = 1

Smaller(a, b) == IF a < b THEN a ELSE b

\* C7: list_guestbook returns min(limit, rows stored) rows of the store, in
\* strictly descending id order, being those of the largest ids: a stored row
\* the limit covers is listed, a deleted one is not; and a create stores,
\* under the id it returns, the normalized name and message of its payload.
C7_ListNewestFirst ==
  /\ [](Listed("list_guestbook") =>
          LET items == resp.items
              eff   == ClampedLimit(req.limit, GuestbookLimitDefault,
                                    GuestbookLimitMax, 1)
          IN  /\ Len(items) = Smaller(eff, Cardinality(guestbook))
              /\ \A i \in 1..Len(items) : items[i] \in guestbook
              /\ \A i, j \in 1..Len(items) : i < j => items[i].id > items[j].id
              /\ \A r \in guestbook :
                   Cardinality({q \in guestbook : q.id >= r.id}) <= eff
                     => \E i \in 1..Len(items) : items[i] = r)
  /\ [][(req'.op = "create_guestbook" /\ resp'.status = 200) =>
          \E r \in guestbook' \ guestbook :
            /\ r.id = resp'.id
            /\ r.name = Clean(req'.payload.name)
            /\ r.message = Clean(req'.payload.message)]_vars

\* A listing with limit 1 of a store of two entries returned the one of the
\* larger id.
C7_Witness ==
  /\ Listed("list_guestbook")
  /\ Cardinality(guestbook) = 2
  /\ Len(resp.items) = 1
  /\ resp.items[1].id = 2

\* C8: a request answered with a validation (400, 422), authorization (401)
\* or not-found (404) error leaves both tables as they were and consumes no
\* id.
C8_ErrorsChangeNothing ==
  [][resp'.status \in {400, 401, 404, 422} =>
       /\ guestbook' = guestbook
       /\ rsvp' = rsvp
       /\ gb_seq' = gb_seq
       /\ rsvp_seq' = rsvp_seq]_vars

\* A delete of an id not in the store was answered 404 while both tables
\* hold rows.
C8_Witness ==
  /\ req.op = "delete_guestbook"
  /\ resp.status = 404
  /\ guestbook # {}
  /\ rsvp # {}

\* C9: a stored guestbook row stays as it is, under its id, unless a
\* delete_guestbook with a valid token names its id, and then it is gone; a
\* stored rsvp row always stays as it is.
C9_RowsImmutable ==
  [][/\ \A r \in guestbook :
          \/ r \in guestbook' /\ \A q \in guestbook' : q.id = r.id => q = r
          \/ /\ DeleteRequest(req')
             /\ req'.item_id = r.id
             /\ r.id \notin Ids(guestbook')
     /\ \A r \in rsvp :
          r \in rsvp' /\ \A q \in rsvp' : q.id = r.id => q = r]_vars

\* A delete with a valid token removed the entry of id 1 and left the entry
\* of id 2 and an rsvp row.
C9_Witness ==
  /\ DeleteRequest(req)
  /\ resp.status = 200
  /\ req.item_id = 1
  /\ Ids(guestbook) = {2}
  /\ rsvp # {}

\* C10: no connection is open between requests, whatever way the last
\* handler left.
C10_NoOpenConnection == openConns = 0

\* A delete raised its 404 inside the try block, and no connection is open.
C10_Witness ==
  /\ req.op = "delete_guestbook"
  /\ resp.status = 404
  /\ openConns = 0

====
